---- MODULE Spec2Model ----
(***************************************************************************)
(* PTS simulation log analysis: the log line classifier (get_phase), the   *)
(* log file parser (parse), the timeline extractor                         *)
(* (TimeLineExtractor.extract with verify_phases) and the queries of the   *)
(* TimeLineTable.                                                          *)
(*                                                                         *)
(* Sources: pts/core/simulation/logfile.py, pts/core/tools/time.py,        *)
(*          pts/core/extract/timeline.py                                   *)
(***************************************************************************)
EXTENDS Integers, Sequences, FiniteSets, TLC

VARIABLES
    \* --- classifier (get_phase applied to one line) ---
    cl_line,            \* the text of the line handed to get_phase
    cl_current,         \* the current phase handed to get_phase
    cl_phase,           \* what get_phase returned (Unset before the call)
    \* --- parser (parse(path), one loop iteration per step) ---
    f,                  \* the lines of the file that are still to be read
    times,              \* column "Time"
    phases,             \* column "Phase"
    messages,           \* column "Message"
    types,              \* column "Type"
    memories,           \* column "Memory"
    verbose_logging,    \* None, TRUE or FALSE
    memory_logging,     \* None, TRUE or FALSE
    current_phase,      \* the phase carried from line to line
    contents,           \* the table parse returned (NoTable before), or the exception
    \* --- LogFile (the accessors of a parsed log) ---
    lazy,               \* what each lazyproperty of the LogFile returned (NotComputed before)
    \* --- extractor (TimeLineExtractor) ---
    log_files,          \* self.log_files: the LogFile objects, in the order supplied
    table,              \* self.table (NoTable when None)
    status,             \* how the last call of extract ended
    t_0,                \* the clock origin extract used in its last call
    \* --- TimeLineTable (the queries of a table) ---
    query               \* the last query of the table and what it returned (NoQuery before)

classifyVars == <<cl_line, cl_current, cl_phase>>
parseVars == <<f, times, phases, messages, types, memories, verbose_logging,
               memory_logging, current_phase, contents>>
extractVars == <<log_files, table, status, t_0>>
accessVars == <<lazy>>
queryVars == <<query>>
vars == <<cl_line, cl_current, cl_phase, f, times, phases, messages, types, memories,
          verbose_logging, memory_logging, current_phase, contents, log_files, table,
          status, t_0, lazy, query>>

(***************************************************************************)
(* Values                                                                  *)
(***************************************************************************)

\* Python's None in a column of strings (the phase) and in a flag.
None == "None"
\* Python's None in the "Time" column: parse_date_time returned None.
NoTime == -1
\* self.table = None
NoTable == [status |-> "idle"]
\* get_phase has not been called yet.
Unset == "unset"

\* The closed set of phase tags get_phase can return.
PhaseTag == {"start", "setup", "wait", "comm", "stellar", "spectra", "dust", "write", None}

\* The parts of the state a run does not use stay as they are here.
ParseIdle ==
    /\ f = <<>>
    /\ times = <<>>
    /\ phases = <<>>
    /\ messages = <<>>
    /\ types = <<>>
    /\ memories = <<>>
    /\ verbose_logging = None
    /\ memory_logging = None
    /\ current_phase = None
    /\ contents = NoTable

ExtractIdle ==
    /\ log_files = <<>>
    /\ table = NoTable
    /\ status = "idle"
    /\ t_0 = NoTime

ClassifyIdle ==
    /\ cl_line = <<>>
    /\ cl_current = None
    /\ cl_phase = Unset

\* The lazyproperties of the LogFile the model follows.
LazyNames == {"threads", "peak_memory", "processes"}

\* A lazyproperty that has not been read yet.
NotComputed == [exc |-> "not computed"]

AccessIdle == lazy = [name \in LazyNames |-> NotComputed]

\* A table that has not been queried yet.
NoQuery == [name |-> "none"]

QueryIdle == query = NoQuery

(***************************************************************************)
(* Text.  A text is a sequence of pieces (words); "pattern in line" is     *)
(* Python's substring test, here: the pattern's pieces occur contiguously. *)
(***************************************************************************)

Contains(text, pattern) ==
    \E i \in 1..(Len(text) - Len(pattern) + 1) :
        SubSeq(text, i, i + Len(pattern) - 1) = pattern

\* The phrases of logfile.py, piece by piece.
StartingSimulation == <<"Starting", "simulation">>
FinishedSetup == <<"Finished", "setup">>
FinishedStellar == <<"Finished", "the", "stellar", "emission", "phase">>
FinishedCommAbsorbed == <<"Finished", "communication", "of", "the", "absorbed", "luminosities">>
FinishedCommSpectra == <<"Finished", "communication", "of", "the", "dust", "emission", "spectra">>
FinishedThe == <<"Finished", "the">>
StageSelfAbsorption == <<"-stage", "dust", "self-absorption", "cycle">>
FinishedDustEmission == <<"Finished", "the", "dust", "emission", "phase">>
FinishedWriting == <<"Finished", "writing", "results">>
FinishedCommOf == <<"Finished", "communication", "of">>
StartingSetup == <<"Starting", "setup">>
FinishedCommDensities == <<"Finished", "communication", "of", "the", "dust", "densities">>
WaitingFor == <<"Waiting", "for", "other", "processes", "to", "finish">>
WaitDensities == WaitingFor \o <<"the", "calculation", "of", "the", "dust", "cell", "densities">>
WaitSetup == WaitingFor \o <<"the", "setup">>
WaitStellar == WaitingFor \o <<"the", "stellar", "emission", "phase">>
WaitSpectra == WaitingFor \o <<"the", "emission", "spectra", "calculation">>
WaitCycle == WaitingFor \o <<"this", "self-absorption", "cycle">>
WaitDustEmission == WaitingFor \o <<"the", "dust", "emission", "phase">>
StartingCommDensities == <<"Starting", "communication", "of", "the", "dust", "densities">>
StartingCommAbsorbed == <<"Starting", "communication", "of", "the", "absorbed", "luminosities">>
StartingCommSpectra == <<"Starting", "communication", "of", "the", "dust", "emission", "spectra">>
StartingCommOf == <<"Starting", "communication", "of">>
StartingStellar == <<"Starting", "the", "stellar", "emission", "phase">>
LibraryEntries == <<"Library", "entries", "in", "use">>
DustSpectraCalculated == <<"Dust", "emission", "spectra", "calculated">>
StartingWriting == <<"Starting", "writing", "results">>
ErrorMarker == <<"***", "Error:">>

(***************************************************************************)
(* The log line classifier (logfile.py: get_phase and its search rules)    *)
(***************************************************************************)

search_start(line) == Contains(line, StartingSimulation)

search_end(line) ==
    IF Contains(line, FinishedSetup) THEN TRUE
    ELSE IF Contains(line, FinishedStellar) THEN TRUE
    ELSE IF Contains(line, FinishedCommAbsorbed) THEN TRUE
    ELSE IF Contains(line, FinishedCommSpectra) THEN TRUE
    ELSE IF Contains(line, FinishedThe) /\ Contains(line, StageSelfAbsorption) THEN TRUE
    ELSE IF Contains(line, FinishedDustEmission) THEN TRUE
    ELSE IF Contains(line, FinishedWriting) THEN TRUE
    ELSE IF Contains(line, FinishedCommOf) THEN TRUE
    ELSE FALSE

search_setup(line) ==
    IF Contains(line, StartingSetup) THEN TRUE
    ELSE IF Contains(line, FinishedCommDensities) THEN TRUE
    ELSE FALSE

search_wait(line) ==
    IF Contains(line, WaitDensities) THEN TRUE
    ELSE IF Contains(line, WaitSetup) THEN TRUE
    ELSE IF Contains(line, WaitStellar) THEN TRUE
    ELSE IF Contains(line, WaitSpectra) THEN TRUE
    ELSE IF Contains(line, WaitCycle) THEN TRUE
    ELSE IF Contains(line, WaitDustEmission) THEN TRUE
    ELSE FALSE

search_comm(line) ==
    IF Contains(line, StartingCommDensities) THEN TRUE
    ELSE IF Contains(line, StartingCommAbsorbed) THEN TRUE
    ELSE IF Contains(line, StartingCommSpectra) THEN TRUE
    ELSE IF Contains(line, StartingCommOf) THEN TRUE
    ELSE FALSE

search_stellar(line) == Contains(line, StartingStellar)

search_spectra(line) == Contains(line, LibraryEntries)

search_dust(line) == Contains(line, DustSpectraCalculated)

search_write(line) == Contains(line, StartingWriting)

\* A slip the order of the rules invites: the setup rule tried before the end markers.
get_phase_setup_first(line, current) ==
    IF search_start(line) THEN "start"
    ELSE IF search_setup(line) THEN "setup"
    ELSE IF search_end(line) THEN None
    ELSE IF search_wait(line) THEN "wait"
    ELSE IF search_comm(line) THEN "comm"
    ELSE IF search_stellar(line) THEN "stellar"
    ELSE IF search_spectra(line) THEN "spectra"
    ELSE IF search_dust(line) THEN "dust"
    ELSE IF search_write(line) THEN "write"
    ELSE current

\* A slip that loses the sticky state: a line without a trigger resets the phase.
get_phase_not_sticky(line, current) ==
    IF search_start(line) THEN "start"
    ELSE IF search_end(line) THEN None
    ELSE IF search_setup(line) THEN "setup"
    ELSE IF search_wait(line) THEN "wait"
    ELSE IF search_comm(line) THEN "comm"
    ELSE IF search_stellar(line) THEN "stellar"
    ELSE IF search_spectra(line) THEN "spectra"
    ELSE IF search_dust(line) THEN "dust"
    ELSE IF search_write(line) THEN "write"
    ELSE None

get_phase(line, current) ==
    IF search_start(line) THEN "start"
    ELSE IF search_end(line) THEN None
    ELSE IF search_setup(line) THEN "setup"
    ELSE IF search_wait(line) THEN "wait"
    ELSE IF search_comm(line) THEN "comm"
    ELSE IF search_stellar(line) THEN "stellar"
    ELSE IF search_spectra(line) THEN "spectra"
    ELSE IF search_dust(line) THEN "dust"
    ELSE IF search_write(line) THEN "write"
    ELSE current

(***************************************************************************)
(* Time stamps (time.py: parse_line, parse_date_time)                      *)
(*                                                                         *)
(* A raw line is a record of the parts SKIRT writes:                       *)
(*   date      the date token split at '/' (its fields are strings)        *)
(*   time      the time token HH:MM:SS.mmm, as a number of seconds         *)
(*   typechar  the character at column 24                                  *)
(*   mem       the number in the "(x GB)" tag, NoMem without the tag        *)
(*   ptag      whether the "[Pnnn]" tag of verbose logging is there        *)
(*   text      the message                                                 *)
(* Every line holds a date token, a time token and more (line.split(None,  *)
(* 2) gives three parts) and its time token is well formed.                *)
(***************************************************************************)

\* What a call returns: a value, or the exception it raised.
Return(v) == [exc |-> None, value |-> v]
Raise(e) == [exc |-> e]
\* A call that returned None.
PyNone == [exc |-> None]

PyTrue == "True"
PyFalse == "False"
Bool(b) == IF b THEN PyTrue ELSE PyFalse

\* int(s) for the strings that occur as date fields; any other string makes int() raise.
IntOf == ("01" :> 1) @@ ("02" :> 2) @@ ("03" :> 3) @@ ("04" :> 4) @@ ("2020" :> 2020)

\* datetime(year, month, day, ...) as a number that orders datetimes as Python does.
datetime(year, month, day, second) ==
    ((((year - 2000) * 12 + (month - 1)) * 31) + (day - 1)) * 86400 + second

parse_date_time(date, time) ==
    IF Len(date) # 3 THEN Return(NoTime)
    ELSE IF \E i \in 1..3 : date[i] \notin DOMAIN IntOf THEN Raise("ValueError")
    ELSE Return(datetime(IntOf[date[3]], IntOf[date[2]], IntOf[date[1]], time))

parse_line(line) == parse_date_time(line.date, line.time)

(***************************************************************************)
(* The log file parser (logfile.py: parse)                                 *)
(***************************************************************************)

NoMem == ""

\* float(s) for the strings that occur in a memory tag, in tenths of a GB.
FloatOf == ("0.1" :> 1) @@ ("0.5" :> 5)

\* The line from column 26 on, piece by piece: memory tag, process tag, message.
FullText(line) ==
    (IF line.mem = NoMem THEN <<>> ELSE <<"(", line.mem, "GB)">>)
    \o (IF line.ptag THEN <<"[P", "000", "]">> ELSE <<>>)
    \o line.text

\* The first position of a piece in a text, 0 when it is absent.
Find(text, piece) ==
    IF \E i \in 1..Len(text) : text[i] = piece
    THEN CHOOSE i \in 1..Len(text) : text[i] = piece /\ \A j \in 1..(i - 1) : text[j] # piece
    ELSE 0

\* text.split(sep)[0]
Split0(text, sep) ==
    IF Find(text, sep) = 0 THEN text ELSE SubSeq(text, 1, Find(text, sep) - 1)

\* text.split(sep)[1]: what lies between the first and the second separator.
Split1(text, sep) ==
    IF Find(text, sep) = 0 THEN Raise("IndexError")
    ELSE Return(Split0(SubSeq(text, Find(text, sep) + 1, Len(text)), sep))

\* float(line.split(" (")[1].split(" GB)")[0])
memory_of(line) ==
    LET first == Split1(FullText(line), "(")
    IN  IF first.exc # None THEN first
        ELSE LET number == Split0(first.value, "GB)")
             IN  IF Len(number) = 1 /\ number[1] \in DOMAIN FloatOf
                 THEN Return(FloatOf[number[1]])
                 ELSE Raise("ValueError")

\* The message of a line under the logging mode of the file.
message_of(line, memory, verbose) ==
    IF memory = PyTrue THEN Split1(FullText(line), "GB)")
    ELSE IF verbose = PyTrue THEN Split1(FullText(line), "]")
    ELSE Return(FullText(line))

\* A mutant of type_of: a character that is none of the four is taken as info.
type_of_lenient(typechar) ==
    IF typechar = "-" THEN Return("success")
    ELSE IF typechar = "!" THEN Return("warning")
    ELSE IF typechar = "*" THEN Return("error")
    ELSE Return("info")

\* The type of a line from its character at column 24.
type_of(typechar) ==
    IF typechar = " " THEN Return("info")
    ELSE IF typechar = "-" THEN Return("success")
    ELSE IF typechar = "!" THEN Return("warning")
    ELSE IF typechar = "*" THEN Return("error")
    ELSE Raise("ValueError")

\* The first exception among the calls of one loop iteration, None when there is none.
FirstExc(results) ==
    IF \E i \in 1..Len(results) : results[i].exc # None
    THEN results[CHOOSE i \in 1..Len(results) :
                    /\ results[i].exc # None
                    /\ \A j \in 1..(i - 1) : results[j].exc = None].exc
    ELSE None

\* A mutant of ParseEntry: the logging modes are detected anew at every line.
ParseEntry_detects_every_line(line) ==
    LET t == parse_line(line)
        verbose == Bool(Contains(FullText(line), <<"[P">>))
        memory == Bool(Contains(FullText(line), <<"GB)">>))
        mem == IF memory = PyTrue THEN memory_of(line) ELSE PyNone
        message == message_of(line, memory, verbose)
        type == type_of(line.typechar)
        exc == FirstExc(<<t, mem, message, type>>)
    IN  IF exc # None
        THEN /\ contents' = [status |-> exc]
             /\ UNCHANGED <<f, times, phases, messages, types, memories, verbose_logging,
                            memory_logging, current_phase>>
        ELSE /\ f' = Tail(f)
             /\ times' = Append(times, t.value)
             /\ verbose_logging' = verbose
             /\ memory_logging' = memory
             /\ memories' = IF memory = PyTrue THEN Append(memories, mem.value) ELSE memories
             /\ messages' = Append(messages, message.value)
             /\ types' = Append(types, type.value)
             /\ current_phase' = get_phase(FullText(line), current_phase)
             /\ phases' = Append(phases, current_phase')
             /\ UNCHANGED contents

\* One iteration of "for line in f", for a line without the error marker.
ParseEntry(line) ==
    LET t == parse_line(line)
        verbose == IF verbose_logging = None
                   THEN Bool(Contains(FullText(line), <<"[P">>)) ELSE verbose_logging
        memory == IF memory_logging = None
                  THEN Bool(Contains(FullText(line), <<"GB)">>)) ELSE memory_logging
        mem == IF memory = PyTrue THEN memory_of(line) ELSE PyNone
        message == message_of(line, memory, verbose)
        type == type_of(line.typechar)
        exc == FirstExc(<<t, mem, message, type>>)
    IN  IF exc # None
        THEN /\ contents' = [status |-> exc]
             /\ UNCHANGED <<f, times, phases, messages, types, memories, verbose_logging,
                            memory_logging, current_phase>>
        ELSE /\ f' = Tail(f)
             /\ times' = Append(times, t.value)
             /\ verbose_logging' = verbose
             /\ memory_logging' = memory
             /\ memories' = IF memory = PyTrue THEN Append(memories, mem.value) ELSE memories
             /\ messages' = Append(messages, message.value)
             /\ types' = Append(types, type.value)
             /\ current_phase' = get_phase(FullText(line), current_phase)
             /\ phases' = Append(phases, current_phase')
             /\ UNCHANGED contents

\* A mutant of ParseLine: lines are skipped by their type character "*" instead of by the
\* error marker.
ParseLine_skips_error_type ==
    /\ contents.status = "parsing"
    /\ f # <<>>
    /\ IF Head(f).typechar = "*"
       THEN /\ f' = Tail(f)
            /\ UNCHANGED <<times, phases, messages, types, memories, verbose_logging,
                           memory_logging, current_phase, contents>>
       ELSE ParseEntry(Head(f))
    /\ UNCHANGED classifyVars
    /\ UNCHANGED extractVars
    /\ UNCHANGED accessVars
    /\ UNCHANGED queryVars

\* The loop of parse: the next line of the file is read.
ParseLine ==
    /\ contents.status = "parsing"
    /\ f # <<>>
    /\ IF Contains(FullText(Head(f)), ErrorMarker)
       THEN /\ f' = Tail(f)
            /\ UNCHANGED <<times, phases, messages, types, memories, verbose_logging,
                           memory_logging, current_phase, contents>>
       ELSE ParseEntry(Head(f))
    /\ UNCHANGED classifyVars
    /\ UNCHANGED extractVars
    /\ UNCHANGED accessVars
    /\ UNCHANGED queryVars

\* The end of parse: the table is created and returned.
ParseReturn ==
    /\ contents.status = "parsing"
    /\ f = <<>>
    /\ contents' = IF memory_logging = PyTrue
                   THEN [status |-> "ok", Time |-> times, Phase |-> phases,
                         Message |-> messages, Type |-> types, Memory |-> memories]
                   ELSE [status |-> "ok", Time |-> times, Phase |-> phases,
                         Message |-> messages, Type |-> types]
    /\ UNCHANGED <<f, times, phases, messages, types, memories, verbose_logging,
                   memory_logging, current_phase>>
    /\ UNCHANGED classifyVars
    /\ UNCHANGED extractVars
    /\ UNCHANGED accessVars
    /\ UNCHANGED queryVars

(***************************************************************************)
(* The accessors of a parsed log (logfile.py: LogFile)                     *)
(***************************************************************************)

InitializingRNG == <<"Initializing", "random", "number", "generator">>
ThreadNumber == <<"thread", "number">>
WithSeed == <<"with", "seed">>
PeakMemoryUsage == <<"Peak", "memory", "usage:">>

\* The first position at which the pattern occurs in the text, 0 when it does not occur.
FindSeq(text, pattern) ==
    LET hits == { i \in 1..(Len(text) - Len(pattern) + 1) :
                    SubSeq(text, i, i + Len(pattern) - 1) = pattern }
    IN  IF hits = {} THEN 0 ELSE CHOOSE i \in hits : \A j \in hits : i <= j

\* text.split(pattern)[0]
SplitSeq0(text, pattern) ==
    IF FindSeq(text, pattern) = 0 THEN text
    ELSE SubSeq(text, 1, FindSeq(text, pattern) - 1)

\* text.split(pattern)[1]: what lies between the first and the second occurrence.
SplitSeq1(text, pattern) ==
    IF FindSeq(text, pattern) = 0 THEN Raise("IndexError")
    ELSE Return(SplitSeq0(SubSeq(text, FindSeq(text, pattern) + Len(pattern), Len(text)),
                          pattern))

\* int(s) for the strings that occur as thread indices.
IntOfIndex == ("0" :> 0) @@ ("1" :> 1) @@ ("2" :> 2)

\* int(message.split("thread number ")[1].split(" with seed")[0])
thread_index_of(message) ==
    LET rest == SplitSeq1(message, ThreadNumber)
    IN  IF rest.exc # None THEN rest
        ELSE LET number == SplitSeq0(rest.value, WithSeed)
             IN  IF Len(number) = 1 /\ number[1] \in DOMAIN IntOfIndex
                 THEN Return(IntOfIndex[number[1]])
                 ELSE Raise("ValueError")

\* The loop of LogFile.threads over the column "Message".
RECURSIVE threads_loop(_, _, _, _)
threads_loop(column, i, triggered, max_thread_index) ==
    IF i >= Len(column) THEN Raise("ValueError")
    ELSE IF Contains(column[i + 1], InitializingRNG)
         THEN LET index == thread_index_of(column[i + 1])
              IN  IF index.exc # None THEN index
                  ELSE threads_loop(column, i + 1, TRUE, index.value)
         ELSE IF triggered THEN Return(max_thread_index + 1)
         ELSE threads_loop(column, i + 1, triggered, max_thread_index)

\* LogFile.threads
threads(log_contents) == threads_loop(log_contents.Message, 0, FALSE, 0)

\* The words of the messages in which the characters "with" occur.
WordsHoldingWith == {"with", "galaxy_with_dust"}

\* "with" in message
holds_with(message) == \E i \in 1..Len(message) : message[i] \in WordsHoldingWith

\* The positions from position from on where the separator ' with ' occurs: the word "with"
\* with a word before it and a word after it.
WithSeparators(message, from) ==
    { i \in from..(Len(message) - 1) : i > 1 /\ message[i] = "with" }

\* int(message.split(' with ')[1].split()[0])
processes_of(message) ==
    IF WithSeparators(message, 1) = {} THEN Raise("IndexError")
    ELSE LET first == CHOOSE i \in WithSeparators(message, 1) :
                          \A j \in WithSeparators(message, 1) : i <= j
             number == message[first + 1]
         IN  IF number \in DOMAIN IntOfIndex THEN Return(IntOfIndex[number])
             ELSE Raise("ValueError")

\* The loop of LogFile.processes over the column "Message".
RECURSIVE processes_loop(_, _)
processes_loop(column, i) ==
    IF i >= Len(column) THEN Raise("ValueError")
    ELSE IF Contains(column[i + 1], StartingSimulation)
         THEN IF holds_with(column[i + 1]) THEN processes_of(column[i + 1])
              ELSE Return(1)
         ELSE processes_loop(column, i + 1)

\* LogFile.processes
processes(log_contents) == processes_loop(log_contents.Message, 0)

\* LogFile.last_message
last_message(log_contents) ==
    IF Len(log_contents.Message) = 0 THEN Raise("IndexError")
    ELSE Return(log_contents.Message[Len(log_contents.Message)])

\* float(last_message.split("Peak memory usage: ")[1].split(" GB")[0]), in tenths of a GB
peak_memory_of(message) ==
    LET rest == SplitSeq1(message, PeakMemoryUsage)
    IN  IF rest.exc # None THEN rest
        ELSE LET number == SplitSeq0(rest.value, <<"GB">>)
             IN  IF Len(number) = 1 /\ number[1] \in DOMAIN FloatOf
                 THEN Return(FloatOf[number[1]])
                 ELSE Raise("ValueError")

\* A mutant of peak_memory: None is returned when the last message does not state it.
peak_memory_none_when_absent(log_contents) ==
    LET last == last_message(log_contents)
    IN  IF last.exc # None THEN last
        ELSE IF Contains(last.value, PeakMemoryUsage) THEN peak_memory_of(last.value)
        ELSE PyNone

\* LogFile.peak_memory
peak_memory(log_contents) ==
    LET last == last_message(log_contents)
    IN  IF last.exc # None THEN last
        ELSE IF Contains(last.value, PeakMemoryUsage) THEN peak_memory_of(last.value)
        ELSE Raise("RuntimeError")

\* log_file.threads is read.
Threads ==
    /\ contents.status = "ok"
    /\ lazy' = [lazy EXCEPT !["threads"] = threads(contents)]
    /\ UNCHANGED queryVars
    /\ UNCHANGED classifyVars
    /\ UNCHANGED parseVars
    /\ UNCHANGED extractVars

\* log_file.peak_memory is read.
PeakMemory ==
    /\ contents.status = "ok"
    /\ lazy' = [lazy EXCEPT !["peak_memory"] = peak_memory(contents)]
    /\ UNCHANGED queryVars
    /\ UNCHANGED classifyVars
    /\ UNCHANGED parseVars
    /\ UNCHANGED extractVars

\* log_file.processes is read.
Processes ==
    /\ contents.status = "ok"
    /\ lazy' = [lazy EXCEPT !["processes"] = processes(contents)]
    /\ UNCHANGED queryVars
    /\ UNCHANGED classifyVars
    /\ UNCHANGED parseVars
    /\ UNCHANGED extractVars

(***************************************************************************)
(* Python lists (0-based, a negative index counts from the end)            *)
(***************************************************************************)

\* list[i]
PyGet(list, i) ==
    IF i >= 0 /\ i < Len(list) THEN Return(list[i + 1])
    ELSE IF i < 0 /\ 0 - i <= Len(list) THEN Return(list[Len(list) + i + 1])
    ELSE Raise("IndexError")

\* list.insert(i, x) for i >= 0: x comes before the element at index i, or last.
PyInsert(list, i, x) ==
    IF i >= Len(list) THEN Append(list, x)
    ELSE SubSeq(list, 1, i) \o <<x>> \o SubSeq(list, i + 1, Len(list))

(***************************************************************************)
(* The phase count reconciler (timeline.py: verify_phases)                 *)
(*                                                                         *)
(* The four column lists travel as one record                              *)
(*   [process_list, phase_list, start_list, end_list].                     *)
(***************************************************************************)

\* An entry of process_indices that was never set (None).
NoIndex == -1

SeqMax(list) == CHOOSE x \in { list[i] : i \in 1..Len(list) } :
                    \A i \in 1..Len(list) : list[i] <= x

\* The loop that fills process_indices: i is the index into process_list.
RECURSIVE process_indices_loop(_, _, _, _, _)
process_indices_loop(process_list, nprocs, i, previous_process, process_indices) ==
    IF i >= Len(process_list) THEN process_indices
    ELSE IF process_list[i + 1] = previous_process
         THEN process_indices_loop(process_list, nprocs, i + 1, previous_process,
                                   process_indices)
         ELSE LET set == [process_indices EXCEPT ![process_list[i + 1] + 1] = i]
              IN  IF process_list[i + 1] = nprocs - 1 THEN set
                  ELSE process_indices_loop(process_list, nprocs, i + 1,
                                            process_list[i + 1], set)

\* A mutant of insert_missing: the row is written over the row at entry_index instead of
\* being inserted before it.
insert_missing_overwrites(cols, process_indices, entry_index) ==
    LET missing_phase == PyGet(cols.phase_list, process_indices[2] + entry_index)
        missing_end == PyGet(cols.end_list, process_indices[2] + entry_index)
        previous_end == PyGet(cols.end_list, entry_index - 1)
    IN  IF FirstExc(<<missing_phase, missing_end, previous_end>>) # None
        THEN Raise(FirstExc(<<missing_phase, missing_end, previous_end>>))
        ELSE Return([process_list |-> [cols.process_list EXCEPT ![entry_index + 1] = 0],
                     phase_list |-> [cols.phase_list EXCEPT
                                        ![entry_index + 1] = missing_phase.value],
                     start_list |-> [cols.start_list EXCEPT
                                        ![entry_index + 1] = previous_end.value],
                     end_list |-> [cols.end_list EXCEPT ![entry_index + 1] = missing_end.value]])

\* A mutant of insert_missing: nothing is inserted into end_list.
insert_missing_without_end(cols, process_indices, entry_index) ==
    LET missing_phase == PyGet(cols.phase_list, process_indices[2] + entry_index)
        missing_end == PyGet(cols.end_list, process_indices[2] + entry_index)
        previous_end == PyGet(cols.end_list, entry_index - 1)
    IN  IF FirstExc(<<missing_phase, missing_end, previous_end>>) # None
        THEN Raise(FirstExc(<<missing_phase, missing_end, previous_end>>))
        ELSE Return([process_list |-> PyInsert(cols.process_list, entry_index, 0),
                     phase_list |-> PyInsert(cols.phase_list, entry_index, missing_phase.value),
                     start_list |-> PyInsert(cols.start_list, entry_index, previous_end.value),
                     end_list |-> cols.end_list])

\* One row inserted at entry_index, copied from the row at process_indices[1] + entry_index.
insert_missing(cols, process_indices, entry_index) ==
    LET missing_phase == PyGet(cols.phase_list, process_indices[2] + entry_index)
        missing_end == PyGet(cols.end_list, process_indices[2] + entry_index)
        previous_end == PyGet(cols.end_list, entry_index - 1)
    IN  IF FirstExc(<<missing_phase, missing_end, previous_end>>) # None
        THEN Raise(FirstExc(<<missing_phase, missing_end, previous_end>>))
        ELSE Return([process_list |-> PyInsert(cols.process_list, entry_index, 0),
                     phase_list |-> PyInsert(cols.phase_list, entry_index, missing_phase.value),
                     start_list |-> PyInsert(cols.start_list, entry_index, previous_end.value),
                     end_list |-> PyInsert(cols.end_list, entry_index, missing_end.value)])

\* The loop "for entry_index in range(max_number_of_entries)".
RECURSIVE verify_loop(_, _, _, _)
verify_loop(cols, process_indices, entry_index, max_number_of_entries) ==
    IF entry_index >= max_number_of_entries THEN Return(cols)
    ELSE IF PyGet(cols.phase_list, entry_index).exc # None THEN Raise("IndexError")
    ELSE IF cols.process_list[entry_index + 1] # 0
         THEN IF cols.process_list[entry_index + 1] # 1 THEN Raise("RuntimeError")
              ELSE LET inserted == insert_missing(cols, process_indices, entry_index)
                   IN  IF inserted.exc # None THEN inserted
                       ELSE verify_loop(inserted.value, process_indices, entry_index + 1,
                                        max_number_of_entries)
         ELSE verify_loop(cols, process_indices, entry_index + 1, max_number_of_entries)

verify_phases(cols) ==
    LET nprocs == SeqMax(cols.process_list) + 1
        process_indices == process_indices_loop(cols.process_list, nprocs, 0, 0 - 1,
                                                [i \in 1..nprocs |-> NoIndex])
    IN  IF nprocs < 2 THEN Raise("ValueError")
        ELSE IF \E i \in 1..nprocs : process_indices[i] = NoIndex THEN Raise("TypeError")
        ELSE verify_loop(cols, process_indices, 0,
                 SeqMax([i \in 1..(nprocs - 1) |->
                            process_indices[i + 1] - process_indices[i]]))

(***************************************************************************)
(* The timeline extractor (timeline.py: TimeLineExtractor)                 *)
(*                                                                         *)
(* A LogFile is [process, contents], contents the columns Time and Phase   *)
(* of the table parse returned.  A time is a number of seconds, or NoTime. *)
(***************************************************************************)

\* LogFile.t_0 and LogFile.t_last, for contents that hold an entry.
LogFile_t_0(log_file) == log_file.contents.Time[1]

LogFile_t_last(log_file) == log_file.contents.Time[Len(log_file.contents.Time)]

\* a - b for two datetimes, in seconds; None has no subtraction.
Seconds(a, b) == IF a = NoTime \/ b = NoTime THEN Raise("TypeError") ELSE Return(a - b)

\* The loop that determines the earliest recorded time, from the wall clock on.
RECURSIVE earliest(_, _, _)
earliest(files, i, t) ==
    IF i > Len(files) THEN Return(t)
    ELSE IF Len(files[i].contents.Time) = 0 THEN Raise("IndexError")
    ELSE IF LogFile_t_0(files[i]) = NoTime THEN Raise("TypeError")
    ELSE earliest(files, i + 1, IF LogFile_t_0(files[i]) < t THEN LogFile_t_0(files[i]) ELSE t)

\* A mutant of the loop over the entries: every entry after the first opens a row, whether
\* or not its phase differs from the current one.
RECURSIVE scan_entries_row_per_entry(_, _, _, _, _, _)
scan_entries_row_per_entry(entries, process, origin, j, phase_now, cols) ==
    IF j >= Len(entries.Phase) THEN Return(cols)
    ELSE IF j > 0
         THEN LET seconds == Seconds(entries.Time[j + 1], origin)
              IN  IF seconds.exc # None THEN seconds
                  ELSE scan_entries_row_per_entry(entries, process, origin, j + 1,
                           entries.Phase[j + 1],
                           [process_list |-> Append(cols.process_list, process),
                            phase_list |-> Append(cols.phase_list, entries.Phase[j + 1]),
                            start_list |-> Append(cols.start_list, seconds.value),
                            end_list |-> Append(cols.end_list, seconds.value)])
         ELSE scan_entries_row_per_entry(entries, process, origin, j + 1, phase_now, cols)

\* The loop over the entries of one log file, j the index of the entry.
RECURSIVE scan_entries(_, _, _, _, _, _)
scan_entries(entries, process, origin, j, phase_now, cols) ==
    IF j >= Len(entries.Phase) THEN Return(cols)
    ELSE IF entries.Phase[j + 1] # phase_now
         THEN LET seconds == Seconds(entries.Time[j + 1], origin)
              IN  IF seconds.exc # None THEN seconds
                  ELSE scan_entries(entries, process, origin, j + 1, entries.Phase[j + 1],
                           [process_list |-> Append(cols.process_list, process),
                            phase_list |-> Append(cols.phase_list, entries.Phase[j + 1]),
                            start_list |-> Append(cols.start_list, seconds.value),
                            end_list |-> Append(cols.end_list, seconds.value)])
         ELSE scan_entries(entries, process, origin, j + 1, phase_now, cols)

\* A mutant of scan_log_file: the last row is closed at the last change of phase instead of
\* at the last recorded time of the log.
scan_log_file_ends_at_last_change(log_file, origin, cols) ==
    IF Len(log_file.contents.Phase) = 0 THEN Raise("IndexError")
    ELSE
    LET first == Seconds(LogFile_t_0(log_file), origin)
    IN  IF first.exc # None THEN first
        ELSE LET scanned ==
                     scan_entries(log_file.contents, log_file.process, origin, 0,
                         log_file.contents.Phase[1],
                         [process_list |-> Append(cols.process_list, log_file.process),
                          phase_list |-> Append(cols.phase_list, log_file.contents.Phase[1]),
                          start_list |-> Append(cols.start_list, first.value),
                          end_list |-> cols.end_list])
             IN  IF scanned.exc # None THEN scanned
                 ELSE Return([scanned.value EXCEPT !.end_list =
                         Append(@, scanned.value.start_list[Len(scanned.value.start_list)])])

\* The body of the second loop over the log files, for one log file.
scan_log_file(log_file, origin, cols) ==
    IF Len(log_file.contents.Phase) = 0 THEN Raise("IndexError")
    ELSE
    LET first == Seconds(LogFile_t_0(log_file), origin)
        last == Seconds(LogFile_t_last(log_file), origin)
    IN  IF first.exc # None THEN first
        ELSE LET scanned ==
                     scan_entries(log_file.contents, log_file.process, origin, 0,
                         log_file.contents.Phase[1],
                         [process_list |-> Append(cols.process_list, log_file.process),
                          phase_list |-> Append(cols.phase_list, log_file.contents.Phase[1]),
                          start_list |-> Append(cols.start_list, first.value),
                          end_list |-> cols.end_list])
             IN  IF scanned.exc # None THEN scanned
                 ELSE IF last.exc # None THEN last
                 ELSE Return([scanned.value EXCEPT !.end_list = Append(@, last.value)])

\* A mutant of the second loop over the log files: the files are taken in the order of their
\* ranks instead of the order in which they were supplied.
RECURSIVE fill_columns_by_rank(_, _, _, _)
fill_columns_by_rank(files, i, origin, cols) ==
    IF i > Len(files) THEN Return(cols)
    ELSE LET k == CHOOSE k \in 1..Len(files) :
                      Cardinality({ m \in 1..Len(files) :
                                      files[m].process < files[k].process }) = i - 1
             filled == scan_log_file(files[k], origin, cols)
         IN  IF filled.exc # None THEN filled
             ELSE fill_columns_by_rank(files, i + 1, origin, filled.value)

\* The second loop over the log files.
RECURSIVE fill_columns(_, _, _, _)
fill_columns(files, i, origin, cols) ==
    IF i > Len(files) THEN Return(cols)
    ELSE LET filled == scan_log_file(files[i], origin, cols)
         IN  IF filled.exc # None THEN filled
             ELSE fill_columns(files, i + 1, origin, filled.value)

EmptyColumns == [process_list |-> <<>>, phase_list |-> <<>>, start_list |-> <<>>,
                 end_list |-> <<>>]

\* TimeLineExtractor.extract at wall clock time now: the exception it raised (or None),
\* the columns it handed to the table and the origin it used.
extract(files, now) ==
    LET origin == earliest(files, 1, now)
    IN  IF origin.exc # None THEN [exc |-> origin.exc, value |-> None, t_0 |-> NoTime]
        ELSE LET filled == fill_columns(files, 1, origin.value, EmptyColumns)
             IN  IF filled.exc # None
                 THEN [exc |-> filled.exc, value |-> None, t_0 |-> origin.value]
                 ELSE LET verified == IF Len(files) > 1 THEN verify_phases(filled.value)
                                      ELSE filled
                      IN  IF verified.exc # None
                          THEN [exc |-> verified.exc, value |-> None, t_0 |-> origin.value]
                          ELSE [exc |-> None, value |-> verified.value, t_0 |-> origin.value]

\* TimeLineTable.from_columns
from_columns(cols) ==
    [status |-> "ok", Process_rank |-> cols.process_list, Simulation_phase |-> cols.phase_list,
     Start_time |-> cols.start_list, End_time |-> cols.end_list]

\* The effect of extract() on the extractor: self.table is set when no exception is raised.
ExtractOn(files, now) ==
    \E result \in { extract(files, now) } :
        /\ status' = IF result.exc = None THEN "ok" ELSE result.exc
        /\ t_0' = result.t_0
        /\ table' = IF result.exc = None THEN from_columns(result.value) ELSE table

\* TimeLineExtractor.extract() on the log files the extractor holds.
Extract(now) ==
    /\ log_files # <<>>
    /\ ExtractOn(log_files, now)
    /\ UNCHANGED log_files
    /\ UNCHANGED classifyVars
    /\ UNCHANGED parseVars
    /\ UNCHANGED accessVars
    /\ UNCHANGED queryVars

\* TimeLineExtractor.clear()
Clear ==
    /\ log_files # <<>>
    /\ table # NoTable
    /\ table' = NoTable
    /\ status' = "idle"
    /\ t_0' = NoTime
    /\ UNCHANGED log_files
    /\ UNCHANGED classifyVars
    /\ UNCHANGED parseVars
    /\ UNCHANGED accessVars
    /\ UNCHANGED queryVars

\* TimeLineExtractor.run(simulation) for a simulation of one process whose log file has
\* been parsed: the LogFile becomes the list of log files and extract() is called.
Run(now) ==
    /\ contents.status = "ok"
    /\ log_files = <<>>
    /\ log_files' = <<[process |-> 0, contents |-> contents]>>
    /\ ExtractOn(log_files', now)
    /\ UNCHANGED classifyVars
    /\ UNCHANGED parseVars
    /\ UNCHANGED accessVars
    /\ UNCHANGED queryVars

(***************************************************************************)
(* The queries of the table (timeline.py: TimeLineTable)                   *)
(***************************************************************************)

\* A mutant of the loop of duration: the rows of the other processes are not left out.
RECURSIVE duration_loop_all_ranks(_, _, _, _, _)
duration_loop_all_ranks(tbl, phase, single, i, total) ==
    IF i >= Len(tbl.Process_rank) THEN Return(total)
    ELSE IF tbl.Simulation_phase[i + 1] = phase
         THEN IF single THEN Return(tbl.End_time[i + 1] - tbl.Start_time[i + 1])
              ELSE duration_loop_all_ranks(tbl, phase, single, i + 1,
                                 total + (tbl.End_time[i + 1] - tbl.Start_time[i + 1]))
         ELSE duration_loop_all_ranks(tbl, phase, single, i + 1, total)

\* A mutant of the loop of duration: with single, the last matching row decides.
RECURSIVE duration_loop_single_last(_, _, _, _, _)
duration_loop_single_last(tbl, phase, single, i, total) ==
    IF i >= Len(tbl.Process_rank) THEN Return(total)
    ELSE IF tbl.Process_rank[i + 1] > 0 THEN Return(total)
    ELSE IF tbl.Simulation_phase[i + 1] = phase
         THEN IF single
              THEN duration_loop_single_last(tbl, phase, single, i + 1,
                                 tbl.End_time[i + 1] - tbl.Start_time[i + 1])
              ELSE duration_loop_single_last(tbl, phase, single, i + 1,
                                 total + (tbl.End_time[i + 1] - tbl.Start_time[i + 1]))
         ELSE duration_loop_single_last(tbl, phase, single, i + 1, total)

RECURSIVE duration_loop(_, _, _, _, _)
duration_loop(tbl, phase, single, i, total) ==
    IF i >= Len(tbl.Process_rank) THEN Return(total)
    ELSE IF tbl.Process_rank[i + 1] > 0 THEN Return(total)
    ELSE IF tbl.Simulation_phase[i + 1] = phase
         THEN IF single THEN Return(tbl.End_time[i + 1] - tbl.Start_time[i + 1])
              ELSE duration_loop(tbl, phase, single, i + 1,
                                 total + (tbl.End_time[i + 1] - tbl.Start_time[i + 1]))
         ELSE duration_loop(tbl, phase, single, i + 1, total)

\* A mutant of duration: the rank of row 0 is not asserted.
duration_unasserted(tbl, phase, single) ==
    IF Len(tbl.Process_rank) = 0 THEN Raise("IndexError")
    ELSE duration_loop(tbl, phase, single, 0, 0)

\* TimeLineTable.duration(phase, single)
duration(tbl, phase, single) ==
    IF Len(tbl.Process_rank) = 0 THEN Raise("IndexError")
    ELSE IF tbl.Process_rank[1] # 0 THEN Raise("AssertionError")
    ELSE duration_loop(tbl, phase, single, 0, 0)

\* A mutant of the loop of duration_without: the rows of the other processes are not left out.
RECURSIVE duration_without_loop_all_ranks(_, _, _, _)
duration_without_loop_all_ranks(tbl, phase_set, i, total) ==
    IF i >= Len(tbl.Process_rank) THEN Return(total)
    ELSE IF tbl.Simulation_phase[i + 1] \notin phase_set
         THEN duration_without_loop_all_ranks(tbl, phase_set, i + 1,
                                    total + (tbl.End_time[i + 1] - tbl.Start_time[i + 1]))
         ELSE duration_without_loop_all_ranks(tbl, phase_set, i + 1, total)

RECURSIVE duration_without_loop(_, _, _, _)
duration_without_loop(tbl, phase_set, i, total) ==
    IF i >= Len(tbl.Process_rank) THEN Return(total)
    ELSE IF tbl.Process_rank[i + 1] > 0 THEN Return(total)
    ELSE IF tbl.Simulation_phase[i + 1] \notin phase_set
         THEN duration_without_loop(tbl, phase_set, i + 1,
                                    total + (tbl.End_time[i + 1] - tbl.Start_time[i + 1]))
         ELSE duration_without_loop(tbl, phase_set, i + 1, total)

\* TimeLineTable.duration_without(phases), phases given as a set (None: the empty set).
duration_without(tbl, phase_set) ==
    IF Len(tbl.Process_rank) = 0 THEN Raise("IndexError")
    ELSE IF tbl.Process_rank[1] # 0 THEN Raise("AssertionError")
    ELSE duration_without_loop(tbl, phase_set, 0, 0)

\* TimeLineTable.total
total_time(tbl) == duration_without(tbl, {})

\* The loop of dustem, over the rows in opposite direction.
RECURSIVE dustem_loop(_, _)
dustem_loop(tbl, i) ==
    IF i < 0 THEN PyNone
    ELSE IF tbl.Process_rank[i + 1] > 0 THEN PyNone
    ELSE IF tbl.Simulation_phase[i + 1] = "dust"
         THEN Return(tbl.End_time[i + 1] - tbl.Start_time[i + 1])
         ELSE dustem_loop(tbl, i - 1)

\* TimeLineTable.dustem
dustem(tbl) == dustem_loop(tbl, Len(tbl.Process_rank) - 1)

\* The named aggregates of the table (lazyproperties without arguments).
setup(tbl) == duration(tbl, "setup", FALSE)
stellar(tbl) == duration(tbl, "stellar", TRUE)
spectra(tbl) == duration(tbl, "spectra", FALSE)
dust(tbl) == duration(tbl, "dust", FALSE)
writing(tbl) == duration(tbl, "write", FALSE)
communication(tbl) == duration(tbl, "comm", FALSE)
waiting(tbl) == duration(tbl, "wait", FALSE)
other(tbl) == duration(tbl, None, FALSE)

\* a + b for the results of two calls: the first exception raised, or the sum.
Plus(a, b) ==
    IF a.exc # None THEN a ELSE IF b.exc # None THEN b ELSE Return(a.value + b.value)

serial(tbl) == Plus(Plus(setup(tbl), writing(tbl)), other(tbl))
parallel(tbl) == Plus(Plus(stellar(tbl), spectra(tbl)), dust(tbl))
overhead(tbl) == Plus(communication(tbl), waiting(tbl))

\* table.duration(phase, single) is called.
Duration(phase, single) ==
    /\ table # NoTable
    /\ query' = [name |-> "duration", result |-> duration(table, phase, single)]
    /\ UNCHANGED classifyVars
    /\ UNCHANGED parseVars
    /\ UNCHANGED extractVars
    /\ UNCHANGED accessVars

\* table.duration_without(phases) is called.
DurationWithout(phase_set) ==
    /\ table # NoTable
    /\ query' = [name |-> "duration_without", result |-> duration_without(table, phase_set)]
    /\ UNCHANGED classifyVars
    /\ UNCHANGED parseVars
    /\ UNCHANGED extractVars
    /\ UNCHANGED accessVars

(***************************************************************************)
(* Extractor runs: the log files extract is run on.                        *)
(***************************************************************************)

\* The latest time stamp of a log, in seconds.
MaxTime == 1

\* The number of entries of all the log files of a run together.
MaxTotalEntries == 4

\* The phases the entries of the log files carry.
PhaseInputs == {"dust", "wait"}

\* The ranks of the log files, in the order simulation.logfiles() supplies them.
RankOrders == { <<0>>, <<0, 1>>, <<0, 1, 2>> }

\* The wall clock times extract may be called at.
Clock == 0..(MaxTime + 1)

\* The columns Time and Phase of a parsed log of n entries: time stamps do not decrease.
LogContents(n, phase_inputs) ==
    { [Time |-> ts, Phase |-> ps] :
        ts \in { t \in [1..n -> 0..MaxTime] : \A i \in 1..(n - 1) : t[i] <= t[i + 1] },
        ps \in [1..n -> phase_inputs] }

\* The extractor holds the log files of the given ranks, with at most budget entries
\* together and at least one entry each; given are the log files of the first ranks.
RECURSIVE HoldsLogFiles(_, _, _, _)
HoldsLogFiles(ranks, budget, phase_inputs, given) ==
    IF ranks = <<>> THEN log_files = given
    ELSE \E n \in 1..(budget - Len(Tail(ranks))) :
            \E c \in LogContents(n, phase_inputs) :
                HoldsLogFiles(Tail(ranks), budget - n, phase_inputs,
                              Append(given, [process |-> Head(ranks), contents |-> c]))

\* The extractor before its first run.
InitExtract(rank_orders, budget, phase_inputs) ==
    /\ \E ranks \in rank_orders : HoldsLogFiles(ranks, budget, phase_inputs, <<>>)
    /\ table = NoTable
    /\ status = "idle"
    /\ t_0 = NoTime
    /\ ClassifyIdle
    /\ ParseIdle
    /\ AccessIdle
    /\ QueryIdle

Init == InitExtract(RankOrders, MaxTotalEntries, PhaseInputs)

Next ==
    \/ \E now \in Clock : Extract(now)
    \/ Clear

Spec == Init /\ [][Next]_vars

\* Runs for the reconciler: three processes, with entries enough for rank 1 to yield two rows
\* more than rank 0.
MaxRepairEntries == 5

InitRepair == InitExtract({ <<0, 1, 2>> }, MaxRepairEntries, PhaseInputs)

SpecRepair == InitRepair /\ [][Next]_vars

\* Runs on log files supplied in any order: extract takes them as simulation.logfiles() gives
\* them and does not sort them.
AnyRankOrders ==
    { <<0>>, <<0, 1>>, <<1, 0>>,
      <<0, 1, 2>>, <<0, 2, 1>>, <<1, 0, 2>>, <<1, 2, 0>>, <<2, 0, 1>>, <<2, 1, 0>> }

InitOrders == InitExtract(AnyRankOrders, MaxTotalEntries, PhaseInputs)

SpecOrders == InitOrders /\ [][Next]_vars

\* Runs on log files supplied in rank order and out of rank order.
SuppliedRankOrders == { <<0, 1>>, <<0, 1, 2>>, <<1, 0, 2>> }

InitSupplied == InitExtract(SuppliedRankOrders, MaxTotalEntries, PhaseInputs)

SpecSupplied == InitSupplied /\ [][Next]_vars

\* Runs for the queries of the table: one to three processes, logs over more phase tags.
MaxQueryEntries == 3

QueryPhases == {"start", None, "setup", "stellar"}

QueryRankOrders == { <<0>>, <<0, 1>>, <<1, 0, 2>> }

InitQueries == InitExtract(QueryRankOrders, MaxQueryEntries, QueryPhases)

SpecQueries == InitQueries /\ [][Next]_vars

(***************************************************************************)
(* Table runs: the tables the queries are applied to.                      *)
(***************************************************************************)

\* The longest table.
MaxTableRows == 3

\* The rows of the tables: rank, phase, start and end time.
TableRowKinds ==
    { [process |-> r, phase |-> p, start |-> t[1], end |-> t[2]] :
        r \in 0..1, p \in {"start", "dust", None}, t \in { <<0, 1>>, <<1, 3>> } }

\* The tables of up to MaxTableRows rows, as TimeLineTable.from_columns builds them.
Tables ==
    UNION { { from_columns([process_list |-> [i \in 1..n |-> rows[i].process],
                            phase_list |-> [i \in 1..n |-> rows[i].phase],
                            start_list |-> [i \in 1..n |-> rows[i].start],
                            end_list |-> [i \in 1..n |-> rows[i].end]]) :
              rows \in [1..n -> TableRowKinds] } : n \in 0..MaxTableRows }

\* The phases the queries are asked about: phases of the rows and one no row carries.
QueriedPhases == {"start", "dust", None, "wait"}

\* A table has been built from columns and has not been queried.
InitTables ==
    /\ table \in Tables
    /\ log_files = <<>>
    /\ status = "idle"
    /\ t_0 = NoTime
    /\ ClassifyIdle
    /\ ParseIdle
    /\ AccessIdle
    /\ QueryIdle

NextTables ==
    \/ \E phase \in QueriedPhases, single \in BOOLEAN : Duration(phase, single)
    \/ \E phase_set \in {{}} \cup { {phase} : phase \in QueriedPhases } :
           DurationWithout(phase_set)

SpecTables == InitTables /\ [][NextTables]_vars

(***************************************************************************)
(* Parser runs: the files parse is run on.                                 *)
(***************************************************************************)

\* The longest file.
MaxLines == 3

GoodDate == <<"03", "04", "2020">>

\* The kinds of line of the files: date token, character at column 24 and message.
LineKinds ==
    { [date |-> GoodDate, typechar |-> " ", text |-> StartingSimulation \o <<"galaxy">>],
      [date |-> GoodDate, typechar |-> " ", text |-> StartingStellar \o <<"...">>],
      [date |-> GoodDate, typechar |-> "-", text |-> FinishedStellar \o <<"in", "6.0", "s">>],
      [date |-> GoodDate, typechar |-> " ", text |-> <<"Running", "on", "host", "for", "user">>],
      [date |-> GoodDate, typechar |-> "*", text |-> ErrorMarker \o <<"No", "convergence">>],
      [date |-> <<"03-04-2020">>, typechar |-> " ", text |-> <<"Running", "on", "host", "for", "user">>],
      [date |-> <<"03-04-2020">>, typechar |-> " ", text |-> StartingSetup \o <<"...">>],
      [date |-> <<"aa", "bb", "cccc">>, typechar |-> " ", text |-> <<"Running", "on", "host", "for", "user">>] }

\* The files: up to MaxLines lines, stamped one second apart in file order.
Files ==
    UNION { { [i \in 1..n |-> [date |-> kinds[i].date, time |-> i,
                               typechar |-> kinds[i].typechar, mem |-> NoMem,
                               ptag |-> FALSE, text |-> kinds[i].text]] :
              kinds \in [1..n -> LineKinds] } : n \in 0..MaxLines }

\* The state at the start of the loop of parse(path).
InitParse ==
    /\ f \in Files
    /\ times = <<>>
    /\ phases = <<>>
    /\ messages = <<>>
    /\ types = <<>>
    /\ memories = <<>>
    /\ verbose_logging = None
    /\ memory_logging = None
    /\ current_phase = None
    /\ contents = [status |-> "parsing"]
    /\ ClassifyIdle
    /\ ExtractIdle
    /\ AccessIdle
    /\ QueryIdle

\* The wall clock time of the analysis: the day after the logs were written.
AnalysisTime == datetime(2020, 4, 4, 0)

NextParse == ParseLine \/ ParseReturn \/ Run(AnalysisTime)

SpecParse == InitParse /\ [][NextParse]_vars

\* Parser runs on files that mix the logging formats: lines with and without a memory tag
\* and a process tag, with the error marker, with type "*" and no marker, and with a type
\* character that is none of the four.
ModeLineKinds ==
    { [typechar |-> " ", mem |-> NoMem, ptag |-> FALSE,
       text |-> <<"Running", "on", "host", "for", "user">>],
      [typechar |-> " ", mem |-> "0.5", ptag |-> TRUE, text |-> StartingStellar \o <<"...">>],
      [typechar |-> "*", mem |-> "0.5", ptag |-> TRUE,
       text |-> ErrorMarker \o <<"No", "convergence">>],
      [typechar |-> "*", mem |-> NoMem, ptag |-> FALSE, text |-> ErrorMarker \o StartingSetup],
      [typechar |-> "*", mem |-> NoMem, ptag |-> FALSE,
       text |-> <<"Could", "not", "open", "file">>],
      [typechar |-> "E", mem |-> NoMem, ptag |-> FALSE,
       text |-> <<"Running", "on", "host", "for", "user">>],
      [typechar |-> "!", mem |-> "0.1", ptag |-> FALSE,
       text |-> <<"Running", "on", "host", "for", "user">>],
      [typechar |-> "-", mem |-> NoMem, ptag |-> TRUE,
       text |-> FinishedStellar \o <<"in", "6.0", "s">>] }

\* The files: up to MaxLines lines, stamped one second apart in file order.
ModeFiles ==
    UNION { { [i \in 1..n |-> [date |-> GoodDate, time |-> i,
                               typechar |-> kinds[i].typechar, mem |-> kinds[i].mem,
                               ptag |-> kinds[i].ptag, text |-> kinds[i].text]] :
              kinds \in [1..n -> ModeLineKinds] } : n \in 0..MaxLines }

InitModes ==
    /\ f \in ModeFiles
    /\ times = <<>>
    /\ phases = <<>>
    /\ messages = <<>>
    /\ types = <<>>
    /\ memories = <<>>
    /\ verbose_logging = None
    /\ memory_logging = None
    /\ current_phase = None
    /\ contents = [status |-> "parsing"]
    /\ ClassifyIdle
    /\ ExtractIdle
    /\ AccessIdle
    /\ QueryIdle

SpecModes == InitModes /\ [][NextParse]_vars

\* Runs of the accessors: a log in plain format is parsed, then its accessors are read and
\* the timeline is extracted from it.
AccessMessages ==
    { <<"Running", "on", "host", "for", "user">>,
      InitializingRNG \o <<"for">> \o ThreadNumber \o <<"0">> \o WithSeed \o <<"4357">>,
      InitializingRNG \o <<"for">> \o ThreadNumber \o <<"1">> \o WithSeed \o <<"4358">>,
      StartingStellar \o <<"...">>,
      PeakMemoryUsage \o <<"0.5", "GB">> }

AccessFiles ==
    UNION { { [i \in 1..n |-> [date |-> GoodDate, time |-> i, typechar |-> " ",
                               mem |-> NoMem, ptag |-> FALSE, text |-> texts[i]]] :
              texts \in [1..n -> AccessMessages] } : n \in 0..MaxLines }

InitAccess ==
    /\ f \in AccessFiles
    /\ times = <<>>
    /\ phases = <<>>
    /\ messages = <<>>
    /\ types = <<>>
    /\ memories = <<>>
    /\ verbose_logging = None
    /\ memory_logging = None
    /\ current_phase = None
    /\ contents = [status |-> "parsing"]
    /\ ClassifyIdle
    /\ ExtractIdle
    /\ AccessIdle
    /\ QueryIdle

NextAccess == ParseLine \/ ParseReturn \/ Threads \/ PeakMemory \/ Run(AnalysisTime)

SpecAccess == InitAccess /\ [][NextAccess]_vars

\* Runs of the accessor processes: the log of a simulation on one process, on two processes,
\* and of a simulation whose name holds the characters "with".
ProcessMessages ==
    { <<"Running", "on", "host", "for", "user">>,
      StartingSimulation \o <<"galaxy", "using", "8", "threads", "and", "a", "single", "process">>,
      StartingSimulation \o <<"galaxy", "with", "2", "processes,", "each", "using", "1", "threads">>,
      StartingSimulation
          \o <<"galaxy_with_dust", "using", "8", "threads", "and", "a", "single", "process">>,
      StartingSimulation
          \o <<"galaxy_with_dust", "with", "2", "processes,", "each", "using", "1", "threads">> }

ProcessFiles ==
    UNION { { [i \in 1..n |-> [date |-> GoodDate, time |-> i, typechar |-> " ",
                               mem |-> NoMem, ptag |-> FALSE, text |-> texts[i]]] :
              texts \in [1..n -> ProcessMessages] } : n \in 0..MaxLines }

InitProcesses ==
    /\ f \in ProcessFiles
    /\ times = <<>>
    /\ phases = <<>>
    /\ messages = <<>>
    /\ types = <<>>
    /\ memories = <<>>
    /\ verbose_logging = None
    /\ memory_logging = None
    /\ current_phase = None
    /\ contents = [status |-> "parsing"]
    /\ ClassifyIdle
    /\ ExtractIdle
    /\ AccessIdle
    /\ QueryIdle

NextProcesses == ParseLine \/ ParseReturn \/ Processes

SpecProcesses == InitProcesses /\ [][NextProcesses]_vars

(***************************************************************************)
(* Classifier runs: get_phase applied to one line and one current phase.   *)
(***************************************************************************)

\* Messages of a SKIRT log that hold one trigger phrase each (with the words that follow it).
TriggerMessages ==
    { StartingSimulation \o <<"galaxy">>,
      FinishedSetup \o <<"in", "2.0", "s">>,
      FinishedStellar \o <<"in", "6.0", "s">>,
      FinishedCommAbsorbed,
      FinishedCommSpectra,
      <<"Finished", "the", "2", "-stage", "dust", "self-absorption", "cycle">>,
      FinishedDustEmission \o <<"in", "3.0", "s">>,
      FinishedWriting \o <<"in", "1.0", "s">>,
      FinishedCommOf \o <<"the", "dust", "cell", "masses">>,
      StartingSetup \o <<"...">>,
      FinishedCommDensities,
      WaitDensities \o <<"...">>,
      WaitSetup \o <<"...">>,
      WaitStellar \o <<"...">>,
      WaitSpectra \o <<"...">>,
      WaitCycle \o <<"...">>,
      WaitDustEmission \o <<"...">>,
      StartingCommDensities \o <<"...">>,
      StartingCommAbsorbed \o <<"...">>,
      StartingCommSpectra \o <<"...">>,
      StartingCommOf \o <<"the", "dust", "cell", "masses">>,
      StartingStellar \o <<"...">>,
      LibraryEntries \o <<"for", "2", "dust", "populations">>,
      DustSpectraCalculated \o <<"for", "wavelength", "1">>,
      StartingWriting \o <<"...">> }

\* Messages that hold no trigger phrase.
PlainMessages ==
    { <<"Running", "on", "host", "for", "user">>,
      <<"Finished", "simulation", "galaxy", "in", "10", "s">>,
      <<"Finished", "the", "dust", "grid">>,
      <<"Launched", "stellar", "emission", "photon", "packages">> }

Messages == TriggerMessages \cup PlainMessages

\* One message for each rule of get_phase, in the order of the rules.
OnePerRule ==
    { StartingSimulation \o <<"galaxy">>,
      FinishedStellar \o <<"in", "6.0", "s">>,
      StartingSetup \o <<"...">>,
      WaitStellar \o <<"...">>,
      StartingCommAbsorbed \o <<"...">>,
      StartingStellar \o <<"...">>,
      LibraryEntries \o <<"for", "2", "dust", "populations">>,
      DustSpectraCalculated \o <<"for", "wavelength", "1">>,
      StartingWriting \o <<"...">> }

\* The lines the classifier is run on: one message, or two messages on one line.
ClassifierLines == Messages \cup { a \o b : a \in OnePerRule, b \in OnePerRule }

InitClassify ==
    /\ cl_line \in ClassifierLines
    /\ cl_current \in PhaseTag
    /\ cl_phase = Unset
    /\ ParseIdle
    /\ ExtractIdle
    /\ AccessIdle
    /\ QueryIdle

\* One call get_phase(line, current).
Classify ==
    /\ cl_line # <<>>
    /\ cl_phase = Unset
    /\ cl_phase' = get_phase(cl_line, cl_current)
    /\ UNCHANGED <<cl_line, cl_current>>
    /\ UNCHANGED parseVars
    /\ UNCHANGED extractVars
    /\ UNCHANGED accessVars
    /\ UNCHANGED queryVars

NextClassify == Classify

SpecClassify == InitClassify /\ [][NextClassify]_vars

(***************************************************************************)
(* Claims about the classifier                                             *)
(***************************************************************************)

\* The rules of get_phase in their fixed order: does rule i match the line?
RuleMatches(line) ==
    << search_start(line), search_end(line), search_setup(line), search_wait(line),
       search_comm(line), search_stellar(line), search_spectra(line), search_dust(line),
       search_write(line) >>

RulePhase == <<"start", None, "setup", "wait", "comm", "stellar", "spectra", "dust", "write">>

MatchingRules(line) == { i \in 1..Len(RulePhase) : RuleMatches(line)[i] }

FirstRule(line) == CHOOSE i \in MatchingRules(line) : \A j \in MatchingRules(line) : i <= j

\* C4: get_phase returns the phase of the lowest-numbered rule (start, end markers, setup,
\* wait, comm, stellar, spectra, dust, write) that matches the line, whatever the current
\* phase is; a line that matches several rules gets the earliest rule's phase.
C4_FirstMatchWins ==
    (cl_phase # Unset /\ MatchingRules(cl_line) # {}) =>
        cl_phase = RulePhase[FirstRule(cl_line)]

\* C4 witness: a classified line that matches two or more rules, with a current phase
\* that differs from the result.
C4_Witness ==
    /\ cl_phase # Unset
    /\ Cardinality(MatchingRules(cl_line)) >= 2
    /\ cl_phase # cl_current

\* C5: a line with "Finished communication of the dust densities" and without "Starting
\* simulation" is classified as phase setup, whatever the current phase is.
C5_DustDensitiesIsSetup ==
    (/\ cl_phase # Unset
     /\ Contains(cl_line, FinishedCommDensities)
     /\ ~Contains(cl_line, StartingSimulation)) => cl_phase = "setup"

(***************************************************************************)
(* Claims about the parser                                                 *)
(***************************************************************************)

\* C6: sticky state: an entry whose line matches no trigger phrase carries the phase of the
\* entry before it (None for the first entry of the file), so the phase column changes only
\* at lines that match a trigger.
C6_StickyPhase ==
    \A i \in 1..Len(phases) :
        MatchingRules(messages[i]) = {} =>
            phases[i] = (IF i = 1 THEN None ELSE phases[i - 1])

\* C6 witness: a parsed file in which a line without a trigger follows the start of the
\* stellar emission phase and is tagged stellar.
C6_Witness ==
    /\ contents.status = "ok"
    /\ \E i \in 2..Len(phases) :
        /\ MatchingRules(messages[i]) = {}
        /\ phases[i] = "stellar"
        /\ search_stellar(messages[i - 1])

\* C10: a line whose date token does not split into three fields is not fatal: parse does
\* not raise at it, and the extraction over the parsed log completes.
C10_UnparseableTimestampNonFatal ==
    /\ (contents.status \notin {"parsing", "ok"} => Len(Head(f).date) = 3)
    /\ (/\ status # "idle"
        /\ \E i \in 1..Len(log_files[1].contents.Time) :
               log_files[1].contents.Time[i] = NoTime) => status = "ok"

(***************************************************************************)
(* Claims about the extractor and the table                                *)
(***************************************************************************)

\* The phases of the rows a log yields: its phase column without repetitions in a row.
RECURSIVE RowPhases(_)
RowPhases(column) ==
    IF Len(column) <= 1 THEN column
    ELSE IF column[1] = column[2] THEN RowPhases(Tail(column))
    ELSE <<column[1]>> \o RowPhases(Tail(column))

RowCount(log_file) == Len(RowPhases(log_file.contents.Phase))

\* Rank 0 and rank 1 were supplied, in this order, and the log of rank 1 yields one row more
\* than the log of rank 0.
RootOneRowShort ==
    /\ Len(log_files) >= 2
    /\ log_files[1].process = 0
    /\ log_files[2].process = 1
    /\ RowCount(log_files[2]) = RowCount(log_files[1]) + 1

\* The log of rank 1 yields the rows of rank 0 followed by one more row.
RootMissesTrailingRow ==
    /\ RootOneRowShort
    /\ SubSeq(RowPhases(log_files[2].contents.Phase), 1, RowCount(log_files[1]))
           = RowPhases(log_files[1].contents.Phase)

\* The sum of end - start over the rows 1..n of the table that carry the phase.
RECURSIVE PhaseSum(_, _, _)
PhaseSum(tbl, phase, n) ==
    IF n = 0 THEN 0
    ELSE PhaseSum(tbl, phase, n - 1)
         + (IF tbl.Simulation_phase[n] = phase THEN tbl.End_time[n] - tbl.Start_time[n] ELSE 0)

\* C1: two processes, the log of rank 1 yields the rows of rank 0 and a trailing wait row:
\* the table holds a wait row of process 0 right after the last row of rank 0, starting at
\* that row's end and ending where the wait row of rank 1 ends, and duration("wait") counts it.
C1_MissingWaitInserted ==
    (/\ status = "ok"
     /\ Len(log_files) = 2
     /\ RootMissesTrailingRow
     /\ log_files[2].contents.Phase[Len(log_files[2].contents.Phase)] = "wait") =>
        LET n == RowCount(log_files[1])
        IN  /\ Len(table.Process_rank) = 2 * n + 2
            /\ table.Process_rank[n + 1] = 0
            /\ table.Simulation_phase[n + 1] = "wait"
            /\ table.Start_time[n + 1] = table.End_time[n]
            /\ table.End_time[n + 1] = LogFile_t_last(log_files[2]) - t_0
            /\ duration(table, "wait", FALSE) = Return(PhaseSum(table, "wait", n + 1))

\* C2: when the logs yield different numbers of rows in any other way than rank 0 missing
\* one trailing row that rank 1 has, extract ends with an error and there is no table.
C2_OtherMisalignmentIsFatal ==
    (/\ status # "idle"
     /\ Len(log_files) > 1
     /\ \E i, j \in 1..Len(log_files) : RowCount(log_files[i]) # RowCount(log_files[j])
     /\ ~RootOneRowShort) =>
        (status # "ok" /\ table = NoTable)

\* C3: no row of the table ends before it starts (the time stamps of every log do not
\* decrease in file order).
C3_EndNotBeforeStart ==
    table.status = "ok" =>
        \A i \in 1..Len(table.Process_rank) : table.End_time[i] >= table.Start_time[i]

\* The earliest of the first time stamps of the log files.
EarliestLogStart ==
    CHOOSE t \in { LogFile_t_0(log_files[i]) : i \in 1..Len(log_files) } :
        \A i \in 1..Len(log_files) : t <= LogFile_t_0(log_files[i])

\* C7: the origin extract uses is the earliest first time stamp of the log files, whatever
\* the wall clock says, so the first row of the first log starts at its own first time stamp
\* less that minimum (0 when it is the earliest log).
C7_OriginIsEarliestLog ==
    status = "ok" =>
        /\ t_0 = EarliestLogStart
        /\ table.Start_time[1] = LogFile_t_0(log_files[1]) - EarliestLogStart

\* C8: running extract again on the same log files gives the same table, whatever the wall
\* clock says at either run.
C8_RerunGivesSameTable ==
    [][(table.status = "ok" /\ table'.status = "ok") => table' = table]_vars

\* The rows of process 0 with phase dust.
RootDustRows(tbl) ==
    { i \in 1..Len(tbl.Process_rank) :
        tbl.Process_rank[i] = 0 /\ tbl.Simulation_phase[i] = "dust" }

\* C9: dustem is end - start of the last row of process 0 with phase dust, for the table of
\* one process and of several.
C9_DustemIsLastRootDustRow ==
    (table.status = "ok" /\ RootDustRows(table) # {}) =>
        LET last == CHOOSE i \in RootDustRows(table) : \A j \in RootDustRows(table) : j <= i
        IN  dustem(table) = Return(table.End_time[last] - table.Start_time[last])

(***************************************************************************)
(* Claims about the queries of the table                                   *)
(***************************************************************************)

\* The rows of process 0 with the phase.
RootRows(tbl, phase) ==
    { i \in 1..Len(tbl.Process_rank) :
        tbl.Process_rank[i] = 0 /\ tbl.Simulation_phase[i] = phase }

\* The rows with the phase among the rows that precede the first row of another process.
LeadingRootRows(tbl, phase) ==
    { i \in 1..Len(tbl.Process_rank) :
        /\ tbl.Simulation_phase[i] = phase
        /\ \A j \in 1..i : tbl.Process_rank[j] = 0 }

\* The sum of end - start over a set of rows of the table.
RECURSIVE RowSum(_, _)
RowSum(tbl, rows) ==
    IF rows = {} THEN 0
    ELSE LET i == CHOOSE r \in rows : TRUE
         IN  (tbl.End_time[i] - tbl.Start_time[i]) + RowSum(tbl, rows \ {i})

\* The first of a non-empty set of rows.
FirstRow(rows) == CHOOSE i \in rows : \A j \in rows : i <= j

Abs(x) == IF x < 0 THEN -x ELSE x

\* total - (serial + parallel + overhead)
Unaccounted(tbl) ==
    total_time(tbl).value
    - (serial(tbl).value + parallel(tbl).value + overhead(tbl).value)

C12_SingleLogTiles ==
    (status = "ok" /\ Len(log_files) = 1) =>
        LET n == Len(table.Process_rank)
            Time == log_files[1].contents.Time
        IN  /\ n >= 1
            /\ table.Start_time[1] + t_0 = Time[1]
            /\ table.End_time[n] + t_0 = Time[Len(Time)]
            /\ \A i \in 1..(n - 1) : table.Start_time[i + 1] = table.End_time[i]
            /\ \A i \in 1..n : table.End_time[i] >= table.Start_time[i]
            /\ RowSum(table, 1..n) = Time[Len(Time)] - Time[1]

\* C12 witness: a log of one process with two rows or more whose last entry is later than the
\* last change of phase.
C12_Witness ==
    /\ status = "ok"
    /\ Len(log_files) = 1
    /\ Len(table.Process_rank) >= 2
    /\ table.End_time[Len(table.Process_rank)] > table.Start_time[Len(table.Process_rank)]

(***************************************************************************)
(* Claims about the layout of the table                                    *)
(***************************************************************************)

\* The rows of a process, in the order of the table.
RowsOf(tbl, process) == { i \in 1..Len(tbl.Process_rank) : tbl.Process_rank[i] = process }

\* Row j is the next row of its process after row i.
NextRowOf(tbl, i, j) ==
    /\ i < j
    /\ tbl.Process_rank[i] = tbl.Process_rank[j]
    /\ \A k \in (i + 1)..(j - 1) : tbl.Process_rank[k] # tbl.Process_rank[i]

\* C13: in every table, also after an insertion by verify_phases, the rows of one process
\* are contiguous in time and ordered: each row starts where the previous row of that process
\* ends, and the start times do not decrease along the rows of the process.
C13_RowsOfProcessContiguous ==
    table.status = "ok" =>
        \A i, j \in 1..Len(table.Process_rank) :
            NextRowOf(table, i, j) =>
                /\ table.Start_time[j] = table.End_time[i]
                /\ table.Start_time[j] >= table.Start_time[i]

\* C14: a table made from log files that include the log of rank 0 has a first row of
\* process 0, all rows of process 0 before any row of another rank, and the rows of each rank
\* in one block.
C14_RootFirstAndBlocks ==
    (table.status = "ok" /\ \E k \in 1..Len(log_files) : log_files[k].process = 0) =>
        /\ table.Process_rank[1] = 0
        /\ \A i, j \in 1..Len(table.Process_rank) :
               (table.Process_rank[i] = 0 /\ table.Process_rank[j] # 0) => i < j
        /\ \A i, j \in 1..Len(table.Process_rank) :
               NextRowOf(table, i, j) => j = i + 1

\* C15: for logs supplied in ascending rank order, duration(phase) is the sum of end - start
\* over the rows of process 0 with exactly that phase (an inserted row included) and counts no
\* row of another rank; duration(phase, single=True) is end - start of the first such row, and
\* 0 when there is none.
C15_DurationSumsRootRows ==
    table.status = "ok" =>
        \A phase \in PhaseTag :
            /\ duration(table, phase, FALSE) = Return(RowSum(table, RootRows(table, phase)))
            /\ duration(table, phase, TRUE) =
                   Return(IF RootRows(table, phase) = {} THEN 0
                          ELSE RowSum(table, {FirstRow(RootRows(table, phase))}))

\* C15 witness: a table with a row inserted for process 0 whose wait rows last, and a row of
\* rank 1 that lasts as well.
C15_Witness ==
    /\ table.status = "ok"
    /\ Len(log_files) = 3
    /\ Cardinality(RowsOf(table, 0)) > RowCount(log_files[1])
    /\ duration(table, "wait", FALSE).value > 0
    /\ \E i \in RowsOf(table, 1) : table.End_time[i] > table.Start_time[i]

\* C16: duration_without of the empty phase set equals total, and both equal the sum of
\* end - start over all rows of process 0 of the table.
C16_TotalSumsRootRows ==
    table.status = "ok" =>
        /\ duration_without(table, {}) = total_time(table)
        /\ total_time(table) = Return(RowSum(table, RowsOf(table, 0)))

(***************************************************************************)
(* Claims about the lines parse keeps                                      *)
(***************************************************************************)

\* A step of parse that has read the next line of the file.
LineRead == contents.status = "parsing" /\ f # <<>> /\ f' = Tail(f)

\* The time stamp of the i-th line of a file of the parser runs.
StampOfLine(i) == datetime(2020, 4, 3, i)

\* C17: a line with the error marker becomes no entry and changes neither the current phase
\* nor the format flags; every other line that is read becomes the next entry (a line of type
\* character "*" without the marker with type error), so the entries are the lines without
\* the marker, in file order.
C17_MarkerLinesDropped ==
    [][LineRead =>
          IF Contains(FullText(Head(f)), ErrorMarker)
          THEN UNCHANGED <<times, phases, messages, types, memories, verbose_logging,
                           memory_logging, current_phase>>
          ELSE /\ times' = Append(times, StampOfLine(Head(f).time))
               /\ Len(phases') = Len(phases) + 1
               /\ Len(messages') = Len(messages) + 1
               /\ Len(types') = Len(types) + 1
               /\ ~Contains(messages'[Len(messages')], ErrorMarker)
               /\ (Head(f).typechar = "*" => types'[Len(types')] = "error")]_vars

\* C17 witness: a parsed file whose first line was dropped (the first entry is the second
\* line), with an entry of type error, and with flags that say plain format.
C17_Witness ==
    /\ contents.status = "ok"
    /\ Len(times) >= 2
    /\ times[1] = StampOfLine(2)
    /\ \E i \in 1..Len(types) : types[i] = "error"
    /\ verbose_logging = PyFalse
    /\ memory_logging = PyFalse

\* The type of an entry for each of the four type characters.
TypeOfChar == (" " :> "info") @@ ("-" :> "success") @@ ("!" :> "warning") @@ ("*" :> "error")

\* C18: when a line without the error marker has a type character that is none of space,
\* "-", "!" and "*", parse fails there and returns no table (the entries parsed so far are
\* not returned); a line that is kept gets the type of its character.
C18_UnknownTypeIsFatal ==
    [][(contents.status = "parsing" /\ f # <<>>
        /\ ~Contains(FullText(Head(f)), ErrorMarker)) =>
          IF Head(f).typechar \notin DOMAIN TypeOfChar
          THEN /\ contents'.status \notin {"parsing", "ok"}
               /\ DOMAIN contents' = {"status"}
          ELSE f' = Tail(f) => types' = Append(types, TypeOfChar[Head(f).typechar])]_vars

\* C18 witness: parse has failed with ValueError at a line with type character "E", after
\* it had parsed entries.
C18_Witness ==
    /\ contents.status = "ValueError"
    /\ Len(times) >= 1
    /\ f # <<>>
    /\ Head(f).typechar = "E"

(***************************************************************************)
(* Claims about the accessors of a parsed log                              *)
(***************************************************************************)

\* The entries whose message is an "Initializing random number generator" message.
RNGEntries == { i \in 1..Len(contents.Message) : Contains(contents.Message[i], InitializingRNG) }

\* The first run of such entries that follow each other.
FirstRNGRun ==
    { i \in RNGEntries : \A j \in FirstRow(RNGEntries)..i : j \in RNGEntries }

\* The largest thread index among the messages of a set of entries.
MaxThreadIndex(entries) ==
    CHOOSE n \in { thread_index_of(contents.Message[i]).value : i \in entries } :
        \A i \in entries : thread_index_of(contents.Message[i]).value <= n

\* C19: threads is one plus the largest thread index among the first run of "Initializing
\* random number generator" messages, in whatever order the indices appear, and it raises
\* only when the log holds no such message.
C19_ThreadsIsMaxIndexPlusOne ==
    lazy["threads"] # NotComputed =>
        IF RNGEntries = {} THEN lazy["threads"].exc # None
        ELSE lazy["threads"] = Return(MaxThreadIndex(FirstRNGRun) + 1)

\* C20: when the last message of a log does not state the peak memory, peak_memory raises
\* RuntimeError, and the extraction over that log still completes, with a table whose last
\* row ends at the last time stamp of the log.
C20_AbortedLogStillExtracts ==
    (/\ contents.status = "ok"
     /\ Len(contents.Message) >= 1
     /\ ~Contains(contents.Message[Len(contents.Message)], PeakMemoryUsage)) =>
        /\ lazy["peak_memory"] # NotComputed => lazy["peak_memory"] = Raise("RuntimeError")
        /\ status # "idle" =>
               /\ status = "ok"
               /\ table.status = "ok"
               /\ table.End_time[Len(table.End_time)] + t_0
                      = contents.Time[Len(contents.Time)]

\* C20 witness: peak_memory has raised RuntimeError for a log of two rows or more, and the
\* table has been extracted from that log.
C20_Witness ==
    /\ lazy["peak_memory"] = Raise("RuntimeError")
    /\ status = "ok"
    /\ Len(table.Process_rank) >= 2
    /\ table.End_time[Len(table.End_time)] > table.Start_time[Len(table.End_time)]

\* The entries whose message is a "Starting simulation" message.
StartEntries ==
    { i \in 1..Len(contents.Message) : Contains(contents.Message[i], StartingSimulation) }

\* C21: processes is decided by the first "Starting simulation" message: the integer that
\* follows "with " when the message holds "with", 1 when it does not; an error when no entry
\* is a "Starting simulation" message.
C21_ProcessesFromFirstStartMessage ==
    lazy["processes"] # NotComputed =>
        IF StartEntries = {} THEN lazy["processes"].exc # None
        ELSE LET message == contents.Message[FirstRow(StartEntries)]
             IN  IF holds_with(message)
                 THEN /\ lazy["processes"].exc = None
                      /\ \E i \in 1..(Len(message) - 1) :
                             /\ message[i] = "with"
                             /\ message[i + 1] \in DOMAIN IntOfIndex
                             /\ lazy["processes"].value = IntOfIndex[message[i + 1]]
                 ELSE lazy["processes"] = Return(1)

(***************************************************************************)
(* Claims about the rows the reconciler inserts                            *)
(***************************************************************************)

\* The number of rows the reconciler inserted into the table: the rows of process 0 beyond
\* those the log of rank 0 yields.
InsertedRows == Cardinality(RowsOf(table, 0)) - RowCount(log_files[1])

\* The row of the table at position p was inserted and is as the reconciler is meant to
\* build it: of process 0, starting at the end of the row before it, with the phase and the
\* end of the row of rank 1 at the same offset within the block of rank 1.
InsertedRowCopiesRankOne(p) ==
    LET twin == RowCount(log_files[1]) + InsertedRows + p
    IN  /\ table.Process_rank[p] = 0
        /\ table.Start_time[p] = table.End_time[p - 1]
        /\ twin <= Len(table.Process_rank)
        /\ table.Process_rank[twin] = 1
        /\ table.Simulation_phase[p] = table.Simulation_phase[twin]
        /\ table.End_time[p] = table.End_time[twin]

\* C22: every inserted row has process 0, starts at the end of the row before it, and has
\* the phase and the end of the row of rank 1 at the same offset within its block; also the
\* second inserted row of one call.
C22_InsertedRowCopiesRankOne ==
    (status = "ok" /\ Len(log_files) >= 2) =>
        \A p \in (RowCount(log_files[1]) + 1)..(RowCount(log_files[1]) + InsertedRows) :
            InsertedRowCopiesRankOne(p)

\* The columns as the scan of the log files left them, before the reconciler was called, for
\* an extraction that has completed.
ColumnsBeforeRepair == fill_columns(log_files, 1, t_0, EmptyColumns).value

\* C23: one call of verify_phases inserts at most one row: the table holds at most one row
\* more than the columns held before the call.
C23_AtMostOneRowInserted ==
    (status = "ok" /\ Len(log_files) > 1) =>
        Len(table.Process_rank) <= Len(ColumnsBeforeRepair.process_list) + 1

(***************************************************************************)
(* Claims about the order of the rows                                      *)
(***************************************************************************)

\* The rows the entries of one log from entry j on stand for, in file order: one row at the
\* first entry and one at each entry whose phase differs from the phase of the entry before.
RECURSIVE BlockOf(_, _)
BlockOf(log_file, j) ==
    IF j > Len(log_file.contents.Phase) THEN <<>>
    ELSE IF j = 1 \/ log_file.contents.Phase[j] # log_file.contents.Phase[j - 1]
         THEN <<[process |-> log_file.process, phase |-> log_file.contents.Phase[j],
                 start |-> log_file.contents.Time[j] - t_0]>> \o BlockOf(log_file, j + 1)
         ELSE BlockOf(log_file, j + 1)

\* The blocks of the log files one after the other, in the order the files were supplied.
RECURSIVE BlocksInInputOrder(_)
BlocksInInputOrder(files) ==
    IF files = <<>> THEN <<>> ELSE BlockOf(Head(files), 1) \o BlocksInInputOrder(Tail(files))

\* The rows of the table from row i on, as process, phase and start.
TableRowsFrom(i) ==
    [k \in 1..(Len(table.Process_rank) - i + 1) |->
        [process |-> table.Process_rank[k + i - 1], phase |-> table.Simulation_phase[k + i - 1],
         start |-> table.Start_time[k + i - 1]]]

\* The rows are the blocks, in their order, with rows of process 0 put in between (the rows
\* the reconciler adds).
RECURSIVE BlocksWithInsertions(_, _)
BlocksWithInsertions(rows, blocks) ==
    IF rows = <<>> THEN blocks = <<>>
    ELSE \/ /\ blocks # <<>>
            /\ Head(rows) = Head(blocks)
            /\ BlocksWithInsertions(Tail(rows), Tail(blocks))
         \/ /\ Head(rows).process = 0
            /\ BlocksWithInsertions(Tail(rows), blocks)

\* C24: the columns the loop over the log files builds are the blocks of the logs in the order
\* the logs were supplied, not sorted by rank or by time, each block in the file order of its
\* log; the table holds these blocks in this order, with nothing but rows of process 0 added
\* by the reconciler in between, and a table without added rows is exactly these blocks.
C24_BlocksInInputOrder ==
    status = "ok" =>
        /\ [k \in 1..Len(ColumnsBeforeRepair.process_list) |->
               [process |-> ColumnsBeforeRepair.process_list[k],
                phase |-> ColumnsBeforeRepair.phase_list[k],
                start |-> ColumnsBeforeRepair.start_list[k]]] = BlocksInInputOrder(log_files)
        /\ BlocksWithInsertions(TableRowsFrom(1), BlocksInInputOrder(log_files))
        /\ Len(table.Process_rank) = Len(BlocksInInputOrder(log_files)) =>
               TableRowsFrom(1) = BlocksInInputOrder(log_files)

\* C24 witness: the logs were supplied with rank 1 before rank 0 and the log of rank 1 starts
\* later than the log of rank 0: in the table the two rows of rank 1 come before the row of
\* the log of rank 0, where the start times go down.
C24_Witness ==
    /\ status = "ok"
    /\ Len(log_files) >= 2
    /\ log_files[1].process = 1
    /\ log_files[2].process = 0
    /\ \E i \in 2..(Len(table.Process_rank) - 1) :
           /\ table.Process_rank[i - 1] = 1
           /\ table.Process_rank[i] = 1
           /\ table.Process_rank[i + 1] = 0
           /\ table.Start_time[i + 1] < table.Start_time[i]

(***************************************************************************)
(* Claims about the logging modes of a file                                *)
(***************************************************************************)

\* The message of a line in the format of a logging mode: what follows the memory tag, what
\* follows the process tag, or the line from column 26 on.
MessageInFormat(line, memory, verbose) ==
    IF memory = PyTrue THEN (IF line.ptag THEN <<"[P", "000", "]">> ELSE <<>>) \o line.text
    ELSE IF verbose = PyTrue THEN line.text
    ELSE FullText(line)

\* C25: verbose_logging and memory_logging are decided by the first line parse keeps and do
\* not change afterwards: a line that is skipped decides nothing, every later line is read in
\* the format chosen then, whether or not it holds "[P" or "GB)"; and the table has a column
\* Memory, with one value per entry, exactly when memory logging was detected.
C25_ModesDecidedByFirstLine ==
    [][/\ verbose_logging # None => verbose_logging' = verbose_logging
       /\ memory_logging # None => memory_logging' = memory_logging
       /\ (LineRead /\ Len(times') = Len(times)) =>
              /\ verbose_logging' = verbose_logging
              /\ memory_logging' = memory_logging
       /\ (LineRead /\ Len(times') > Len(times)) =>
              /\ verbose_logging = None =>
                     verbose_logging' = Bool(Contains(FullText(Head(f)), <<"[P">>))
              /\ memory_logging = None =>
                     memory_logging' = Bool(Contains(FullText(Head(f)), <<"GB)">>))
              /\ messages'[Len(messages')]
                     = MessageInFormat(Head(f), memory_logging', verbose_logging')
              /\ Len(memories') = (IF memory_logging' = PyTrue THEN Len(times') ELSE 0)
       /\ (contents.status = "parsing" /\ contents'.status = "ok") =>
              /\ ("Memory" \in DOMAIN contents') <=> (memory_logging = PyTrue)
              /\ memory_logging = PyTrue => Len(contents'.Memory) = Len(contents'.Time)
      ]_vars

\* C25 witness: a file whose first kept line has no tag and whose later line has a memory
\* tag and a process tag has been parsed: the later message holds the tags and the table has
\* no column Memory.
C25_Witness ==
    /\ contents.status = "ok"
    /\ memory_logging = PyFalse
    /\ verbose_logging = PyFalse
    /\ "Memory" \notin DOMAIN contents
    /\ Len(contents.Message) >= 2
    /\ ~Contains(contents.Message[1], <<"GB)">>)
    /\ \E i \in 2..Len(contents.Message) :
           /\ Contains(contents.Message[i], <<"GB)">>)
           /\ Contains(contents.Message[i], <<"[P">>)

(***************************************************************************)
(* Claims about the queries of any table                                   *)
(***************************************************************************)

\* C26: for a table whose row 0 does not belong to process 0, duration and duration_without
\* return no value: they raise AssertionError; and a query leaves the table as it is.
C26_QueriesAssertRootFirst ==
    [][/\ table' = table
       /\ (/\ Len(table.Process_rank) >= 1
           /\ table.Process_rank[1] # 0
           /\ query'.name \in {"duration", "duration_without"}) =>
              query'.result = Raise("AssertionError")
      ]_vars

\* C26 witness: duration_without has raised AssertionError on a table whose row 0 belongs to
\* process 1 and whose later rows belong to process 0.
C26_Witness ==
    /\ query.name = "duration_without"
    /\ query.result = Raise("AssertionError")
    /\ Len(table.Process_rank) = 3
    /\ table.Process_rank[1] = 1
    /\ table.Process_rank[2] = 0
    /\ table.Process_rank[3] = 0

\* The rows of four columns, as process, phase, start and end.
RowsOfColumns(process_list, phase_list, start_list, end_list) ==
    [k \in 1..Len(process_list) |->
        [process |-> process_list[k], phase |-> phase_list[k], start |-> start_list[k],
         end |-> end_list[k]]]

\* C27: verify_phases keeps every row it was given, unaltered and in the same order: the
\* table is the columns of before the call with rows of process 0 put in between, and
\* nothing else.
C27_RepairKeepsRows ==
    (status = "ok" /\ Len(log_files) > 1) =>
        \A before \in { ColumnsBeforeRepair } :
            \A rows \in { RowsOfColumns(table.Process_rank, table.Simulation_phase,
                                        table.Start_time, table.End_time) } :
                \A given \in { RowsOfColumns(before.process_list, before.phase_list,
                                             before.start_list, before.end_list) } :
                    BlocksWithInsertions(rows, given)

\* C27 witness: the reconciler has added two rows to columns that held rows of three ranks
\* with different phases and times.
C27_Witness ==
    /\ status = "ok"
    /\ Len(log_files) = 3
    /\ Len(table.Process_rank) = Len(ColumnsBeforeRepair.process_list) + 2
    /\ \E i, j \in 1..Len(ColumnsBeforeRepair.process_list) :
           /\ ColumnsBeforeRepair.phase_list[i] # ColumnsBeforeRepair.phase_list[j]
           /\ ColumnsBeforeRepair.end_list[i] # ColumnsBeforeRepair.end_list[j]

(***************************************************************************)
(* Claims about the columns                                                *)
(***************************************************************************)

\* The four lists are of one length.
EqualLengths(cols) ==
    /\ Len(cols.phase_list) = Len(cols.process_list)
    /\ Len(cols.start_list) = Len(cols.process_list)
    /\ Len(cols.end_list) = Len(cols.process_list)

\* The columns after the scan of the first k log files.
ColumnsAfterScan(k) == fill_columns(SubSeq(log_files, 1, k), 1, t_0, EmptyColumns).value

\* What verify_phases computes before its loop from the columns it is given: the index at
\* which the rows of each rank begin, and the number of rounds of its loop.
RepairIndices ==
    process_indices_loop(ColumnsBeforeRepair.process_list,
                         SeqMax(ColumnsBeforeRepair.process_list) + 1, 0, 0 - 1,
                         [i \in 1..(SeqMax(ColumnsBeforeRepair.process_list) + 1) |-> NoIndex])

RepairRounds ==
    SeqMax([i \in 1..(Len(RepairIndices) - 1) |-> RepairIndices[i + 1] - RepairIndices[i]])

\* The columns after the first m rounds of the loop of the reconciler, which inserts at most
\* one row per round.
ColumnsAfterRounds(m) == verify_loop(ColumnsBeforeRepair, RepairIndices, 0, m).value

\* C28: the four columns are of one length after the scan of each log file, after every
\* insertion of the reconciler, and in the table.
C28_ColumnsOfEqualLength ==
    /\ status # "idle" =>
           \A k \in 1..Len(log_files) : \A cols \in { ColumnsAfterScan(k) } : EqualLengths(cols)
    /\ status = "ok" =>
           /\ Len(log_files) > 1 =>
                  \A m \in 0..RepairRounds :
                      \A cols \in { ColumnsAfterRounds(m) } : EqualLengths(cols)
           /\ Len(table.Simulation_phase) = Len(table.Process_rank)
           /\ Len(table.Start_time) = Len(table.Process_rank)
           /\ Len(table.End_time) = Len(table.Process_rank)

\* C28 witness: three logs were scanned and the reconciler has inserted twice; after its
\* first insertion the columns held one row more than before the call.
C28_Witness ==
    /\ status = "ok"
    /\ Len(log_files) = 3
    /\ Len(ColumnsAfterScan(1).process_list) < Len(ColumnsAfterScan(2).process_list)
    /\ Len(table.End_time) = Len(ColumnsAfterScan(3).end_list) + 2
    /\ \E m \in 1..RepairRounds :
           Len(ColumnsAfterRounds(m).end_list) = Len(ColumnsBeforeRepair.end_list) + 1

\* The number of rows the columns hold after the scan of the first k log files.
RowsAfterScan(k) == IF k = 0 THEN 0 ELSE Len(ColumnsAfterScan(k).process_list)

\* The entries of a phase column whose phase differs from the phase of the entry before.
PhaseChanges(column) == { j \in 2..Len(column) : column[j] # column[j - 1] }

\* C29: before the reconciler is called, the log supplied k-th has added
\* 1 + (the number of its entries whose phase differs from the phase of the entry before)
\* rows at the end of the columns; the first of them carries the phase of the first entry of
\* the log and no two of them that follow each other carry the same phase.
C29_RowsPerLog ==
    status # "idle" =>
        \A k \in 1..Len(log_files) :
            /\ RowsAfterScan(k) - RowsAfterScan(k - 1)
                   = 1 + Cardinality(PhaseChanges(log_files[k].contents.Phase))
            /\ \A i \in 1..RowsAfterScan(k - 1) :
                   /\ ColumnsAfterScan(k).process_list[i]
                          = ColumnsAfterScan(k - 1).process_list[i]
                   /\ ColumnsAfterScan(k).phase_list[i] = ColumnsAfterScan(k - 1).phase_list[i]
            /\ \A i \in (RowsAfterScan(k - 1) + 1)..RowsAfterScan(k) :
                   ColumnsAfterScan(k).process_list[i] = log_files[k].process
            /\ ColumnsAfterScan(k).phase_list[RowsAfterScan(k - 1) + 1]
                   = log_files[k].contents.Phase[1]
            /\ \A i \in (RowsAfterScan(k - 1) + 1)..(RowsAfterScan(k) - 1) :
                   ColumnsAfterScan(k).phase_list[i] # ColumnsAfterScan(k).phase_list[i + 1]

\* C29 witness: a log of three entries or more, some of which repeat the phase of the entry
\* before and some of which change it, was scanned after another log.
C29_Witness ==
    /\ status = "ok"
    /\ \E k \in 2..Len(log_files) :
           /\ Len(log_files[k].contents.Phase) >= 3
           /\ PhaseChanges(log_files[k].contents.Phase) # {}
           /\ RowsAfterScan(k) - RowsAfterScan(k - 1) < Len(log_files[k].contents.Phase)

\* The sum of duration(phase) over a set of phase tags.
RECURSIVE DurationOver(_, _)
DurationOver(tbl, tags) ==
    IF tags = {} THEN 0
    ELSE LET phase == CHOOSE phase \in tags : TRUE
         IN  duration(tbl, phase, FALSE).value + DurationOver(tbl, tags \ {phase})

====
